---- MODULE Spec2Model ----
(***************************************************************************)
(* StudyMate (src/studymate.py): the StudyMate class (configuration,      *)
(* prompt construction, response client) and the Gradio handler functions *)
(* (setup_api_key, ask_question, get_study_tips, clear_chat).              *)
(*                                                                         *)
(* A Python str is modelled as a sequence of tokens.  A token is either a  *)
(* single character of user input or one fixed literal of the source, so   *)
(* f-string interpolation is concatenation (\o) and "x in y" is            *)
(* contiguous-subsequence containment.  Non-ASCII literals of the source   *)
(* (emoji, Devanagari, Tamil, Japanese) are written as ASCII stand-ins,    *)
(* one distinct stand-in per distinct source literal.                      *)
(***************************************************************************)
EXTENDS Integers, Sequences, FiniteSets, TLC

VARIABLES api_key, model, genai_key, history, last

vars == <<api_key, model, genai_key, history, last>>

(***************************************************************************)
(* Bounds of the model.                                                    *)
(***************************************************************************)
MaxHist == 2
MaxSetups == 2

(***************************************************************************)
(* Python values.                                                          *)
(***************************************************************************)
\* an optional reference is None or Some(v)
None == <<>>
Some(v) == <<v>>
SP == " "
EmptyStr == <<>>

IsSpace(c) == c = SP

RECURSIVE lstrip(_)
lstrip(s) == IF s # <<>> /\ IsSpace(Head(s)) THEN lstrip(Tail(s)) ELSE s

RECURSIVE rstrip(_)
rstrip(s) ==
    IF s # <<>> /\ IsSpace(s[Len(s)]) THEN rstrip(SubSeq(s, 1, Len(s) - 1)) ELSE s

\* str.strip(): drops leading and trailing whitespace
strip(s) == rstrip(lstrip(s))

\* "sub in s" on Python strings
Contains(s, sub) ==
    \E i \in 1..(Len(s) - Len(sub) + 1) : SubSeq(s, i, i + Len(sub) - 1) = sub

\* Python truthiness of a str ("" is falsy) and of an optional object
\* reference (None is falsy, any object is truthy)
Truthy(v) == v # <<>>

\* dict.get(key, default)
DictGet(d, k, default) == IF k \in DOMAIN d THEN d[k] ELSE default

(***************************************************************************)
(* Inputs.  The dropdowns offer the labels of self.subjects,               *)
(* self.languages and the three difficulty levels; callers of the class    *)
(* may pass any string, so each set also holds a label outside its list.   *)
(***************************************************************************)
Credentials == { <<>>, <<SP>>, <<SP, "k", SP>>, <<"j">> }
Questions == { <<>>, <<SP>>, <<"q">>, <<SP, "q", SP>> }
Subjects == { <<"Physics">>, <<"Alchemy">> }
KnownLanguages ==
    { <<"English">>, <<"Hindi">>, <<"Tamil">>, <<"Spanish">>, <<"Japanese">> }
Languages == KnownLanguages \cup { <<"Klingon">> }
Difficulties == { <<"Beginner">>, <<"Expert">> }

\* text typed and dropdown choices made in the interactive session
SessionQuestions == { <<>>, <<SP>>, <<SP, "q", SP>> }
SessionSubjects == { <<"Physics">> }
SessionLanguages == { <<"Spanish">> }
SessionDifficulties == { <<"Beginner">> }

(***************************************************************************)
(* Outcomes of the external library.                                       *)
(*   genai.configure / genai.GenerativeModel: either may raise.            *)
(*   model.generate_content: returns None, returns a response whose .text  *)
(*   is empty or not, or raises.                                           *)
(***************************************************************************)
InitOutcomes ==
    { [kind |-> "ok", text |-> EmptyStr, err |-> EmptyStr],
      [kind |-> "configure_raises", text |-> EmptyStr, err |-> <<"BadKey">>],
      [kind |-> "model_raises", text |-> EmptyStr, err |-> <<"NoModel">>] }

NoOutcome == [kind |-> "not_called", text |-> EmptyStr, err |-> EmptyStr]

GenerateOutcomes ==
    { [kind |-> "none", text |-> EmptyStr, err |-> EmptyStr],
      [kind |-> "response", text |-> EmptyStr, err |-> EmptyStr],
      [kind |-> "response", text |-> <<"T">>, err |-> EmptyStr],
      [kind |-> "raises", text |-> EmptyStr, err |-> <<"E">>] }

\* str(e) of the AttributeError raised by None.text
NoneTextError == <<"'NoneType' object has no attribute 'text'">>

ModelName == "gemini-2.0-flash-exp"

\* the object built by genai.GenerativeModel(...); id tells two handles apart
Handle(n) == [model_name |-> ModelName, id |-> n]

(***************************************************************************)
(* Fixed messages of the source.                                           *)
(***************************************************************************)
NotConfiguredMsg == <<"[x] Please configure your Gemini API key first!">>
EmptyQuestionMsg ==
    <<"Please ask me a study question! I'm here to help you learn. [books]">>
NoResponseMsg ==
    <<"I couldn't generate a response. Please try rephrasing your question.">>
ResponseErrorPrefix == <<"[x] Error getting response: ">>
CheckHint == <<"\n\nPlease check your API key and internet connection.">>
NoTipsMsg == <<"Couldn't generate study tips right now.">>
TipsErrorPrefix == <<"Error generating study tips: ">>
ConfiguredMsg == <<"[ok] Gemini API configured successfully!">>
ConfigErrorPrefix == <<"[x] Error configuring Gemini API: ">>
EnterKeyMsg == <<"[x] Please enter your Gemini API key">>
ReadyMsg == <<"[cap] StudyMate is ready! Ask me any study question.">>

(***************************************************************************)
(* StudyMate.create_study_prompt                                           *)
(***************************************************************************)
DefaultInstruction == <<"Respond in English.">>

language_instructions ==
    ( <<"English">> :> <<"Respond in clear, simple English.">> ) @@
    ( <<"Hindi">> :> <<"[hi] Hindi mein uttar den. Saral aur spasht bhasha ka upyog karen.">> ) @@
    ( <<"Tamil">> :> <<"[ta] Tamilil pathilalikkavum. Eliya matrum thelivana mozhiyai payanpaduthungal.">> ) @@
    ( <<"Spanish">> :> <<"Responde en espanol claro y sencillo.">> ) @@
    ( <<"Japanese">> :> <<"[ja] Nihongo de kotaete kudasai. Wakariyasuku kanketsu na kotoba o tsukatte kudasai.">> )

\* the f-string of create_study_prompt around its four interpolations
TutorTemplate(question, subject, instruction, difficulty) ==
    <<"\nYou are StudyMate, a friendly and knowledgeable AI tutor. A student has asked you a question about ">>
    \o subject
    \o <<".\n\nQUESTION: ">>
    \o question
    \o <<"\n\nINSTRUCTIONS:\n- ">>
    \o instruction
    \o <<"\n- Act like a patient, encouraging tutor who wants to help the student truly understand",
         "\n- Provide a detailed, step-by-step explanation",
         "\n- Use real-life examples and analogies when possible",
         "\n- Break down complex concepts into simple parts",
         "\n- Adjust your explanation for ">>
    \o difficulty
    \o <<" level",
         "\n- Be conversational and encouraging",
         "\n- If it's a problem-solving question, show the complete solution process",
         "\n- If it's a conceptual question, explain the 'why' behind the concept",
         "\n- End with a summary or key takeaway",
         "\n- Ask if the student needs clarification on any part",
         "\n\nRESPONSE FORMAT:",
         "\n1. Start with a friendly acknowledgment of their question",
         "\n2. Provide the main explanation with examples",
         "\n3. Give step-by-step breakdown if applicable",
         "\n4. Include real-world applications or examples",
         "\n5. Summarize key points",
         "\n6. Encourage further questions",
         "\n\nRemember: You're not just giving answers, you're helping students learn and understand!\n">>

\* variant: the question is stripped before it is embedded
create_study_prompt_stripped(question, subject, language, difficulty) ==
    TutorTemplate(strip(question), subject,
                  DictGet(language_instructions, language, DefaultInstruction),
                  difficulty)

create_study_prompt(question, subject, language, difficulty) ==
    TutorTemplate(question, subject,
                  DictGet(language_instructions, language, DefaultInstruction),
                  difficulty)

(***************************************************************************)
(* StudyMate.get_study_response.  m is self.model, o the outcome of        *)
(* generate_content should it be called.  The value is the returned string *)
(* together with the prompts passed to generate_content, in call order.    *)
(***************************************************************************)
\* variant: a raised error is followed by a second attempt
get_study_response_retry(m, question, subject, language, difficulty, o) ==
    IF ~Truthy(m)
    THEN [result |-> NotConfiguredMsg, calls |-> <<>>]
    ELSE IF ~Truthy(strip(question))
    THEN [result |-> EmptyQuestionMsg, calls |-> <<>>]
    ELSE LET prompt == create_study_prompt(question, subject, language, difficulty)
         IN  CASE o.kind = "raises" ->
                    [result |-> ResponseErrorPrefix \o o.err \o CheckHint,
                     calls |-> <<prompt, prompt>>]
               [] o.kind = "response" /\ Truthy(o.text) ->
                    [result |-> o.text, calls |-> <<prompt>>]
               [] OTHER ->
                    [result |-> NoResponseMsg, calls |-> <<prompt>>]

\* variant: the question is tested before self.model
get_study_response_blank_first(m, question, subject, language, difficulty, o) ==
    IF ~Truthy(strip(question))
    THEN [result |-> EmptyQuestionMsg, calls |-> <<>>]
    ELSE IF ~Truthy(m)
    THEN [result |-> NotConfiguredMsg, calls |-> <<>>]
    ELSE LET prompt == create_study_prompt(question, subject, language, difficulty)
         IN  CASE o.kind = "raises" ->
                    [result |-> ResponseErrorPrefix \o o.err \o CheckHint,
                     calls |-> <<prompt>>]
               [] o.kind = "response" /\ Truthy(o.text) ->
                    [result |-> o.text, calls |-> <<prompt>>]
               [] OTHER ->
                    [result |-> NoResponseMsg, calls |-> <<prompt>>]

\* variant: response.text is read without testing response first
get_study_response_unguarded(m, question, subject, language, difficulty, o) ==
    IF ~Truthy(m)
    THEN [result |-> NotConfiguredMsg, calls |-> <<>>]
    ELSE IF ~Truthy(strip(question))
    THEN [result |-> EmptyQuestionMsg, calls |-> <<>>]
    ELSE LET prompt == create_study_prompt(question, subject, language, difficulty)
         IN  CASE o.kind = "raises" ->
                    [result |-> ResponseErrorPrefix \o o.err \o CheckHint,
                     calls |-> <<prompt>>]
               [] o.kind = "none" ->
                    [result |-> ResponseErrorPrefix \o NoneTextError \o CheckHint,
                     calls |-> <<prompt>>]
               [] o.kind = "response" /\ Truthy(o.text) ->
                    [result |-> o.text, calls |-> <<prompt>>]
               [] OTHER ->
                    [result |-> NoResponseMsg, calls |-> <<prompt>>]

get_study_response(m, question, subject, language, difficulty, o) ==
    IF ~Truthy(m)
    THEN [result |-> NotConfiguredMsg, calls |-> <<>>]
    ELSE IF ~Truthy(strip(question))
    THEN [result |-> EmptyQuestionMsg, calls |-> <<>>]
    ELSE LET prompt == create_study_prompt(question, subject, language, difficulty)
         IN  CASE o.kind = "raises" ->
                    [result |-> ResponseErrorPrefix \o o.err \o CheckHint,
                     calls |-> <<prompt>>]
               [] o.kind = "response" /\ Truthy(o.text) ->
                    [result |-> o.text, calls |-> <<prompt>>]
               [] OTHER ->
                    [result |-> NoResponseMsg, calls |-> <<prompt>>]

(***************************************************************************)
(* StudyMate.get_study_tips                                                *)
(***************************************************************************)
tips_language_instructions ==
    ( <<"English">> :> <<"Respond in clear, simple English.">> ) @@
    ( <<"Hindi">> :> <<"[hi] Hindi mein uttar den.">> ) @@
    ( <<"Tamil">> :> <<"[ta] Tamilil pathilalikkavum[danda]">> ) @@
    ( <<"Spanish">> :> <<"Responde en espanol.">> ) @@
    ( <<"Japanese">> :> <<"[ja] Nihongo de kotaete kudasai.">> )

\* the f-string of get_study_tips around its interpolations
TipsTemplate(subject, instruction) ==
    <<"\nYou are StudyMate, a helpful AI tutor. Provide 5-7 practical study tips specifically for ">>
    \o subject
    \o <<".\n\nINSTRUCTIONS:\n- ">>
    \o instruction
    \o <<"\n- Make tips actionable and specific to ">>
    \o subject
    \o <<"\n- Include both study techniques and practical advice",
         "\n- Be encouraging and motivational",
         "\n- Format as numbered list for easy reading",
         "\n- Include time management tips if relevant",
         "\n\nMake it friendly and encouraging!\n">>

\* variant: an unrecognized language name gets no instruction
tips_prompt_no_default(subject, language) ==
    TipsTemplate(subject, DictGet(tips_language_instructions, language, EmptyStr))

tips_prompt(subject, language) ==
    TipsTemplate(subject,
                 DictGet(tips_language_instructions, language, DefaultInstruction))

StudyMate_get_study_tips(m, subject, language, o) ==
    IF ~Truthy(m)
    THEN [result |-> NotConfiguredMsg, calls |-> <<>>]
    ELSE LET prompt == tips_prompt(subject, language)
         IN  CASE o.kind = "raises" ->
                    [result |-> TipsErrorPrefix \o o.err, calls |-> <<prompt>>]
               [] o.kind = "none" ->
                    \* response.text on None raises AttributeError, caught below
                    [result |-> TipsErrorPrefix \o NoneTextError, calls |-> <<prompt>>]
               [] o.kind = "response" /\ Truthy(o.text) ->
                    [result |-> o.text, calls |-> <<prompt>>]
               [] OTHER ->
                    [result |-> NoTipsMsg, calls |-> <<prompt>>]

(***************************************************************************)
(* StudyMate.setup_gemini.  self is the StudyMate object together with the *)
(* key held by the genai library; o says which library call raises.  The   *)
(* value carries the keys passed to genai.configure, in call order.        *)
(***************************************************************************)
HandleId(m) == IF m = None THEN 0 ELSE m[1].id

NextId(m) == HandleId(m) + 1

\* variant: self.api_key is assigned before the library is called
setup_gemini_store_first(self, key, o) ==
    CASE o.kind = "configure_raises" ->
            [self |-> [self EXCEPT !.api_key = Some(key)], ok |-> FALSE,
             message |-> ConfigErrorPrefix \o o.err, configured |-> <<key>>]
      [] o.kind = "model_raises" ->
            [self |-> [self EXCEPT !.api_key = Some(key), !.genai_key = Some(key)],
             ok |-> FALSE,
             message |-> ConfigErrorPrefix \o o.err, configured |-> <<key>>]
      [] OTHER ->
            [self |-> [api_key |-> Some(key),
                       model |-> Some(Handle(NextId(self.model))),
                       genai_key |-> Some(key)],
             ok |-> TRUE, message |-> ConfiguredMsg, configured |-> <<key>>]

\* variant: a key already stored is kept
setup_gemini_keep_first(self, key, o) ==
    CASE o.kind = "configure_raises" ->
            [self |-> self, ok |-> FALSE,
             message |-> ConfigErrorPrefix \o o.err, configured |-> <<key>>]
      [] o.kind = "model_raises" ->
            [self |-> [self EXCEPT !.genai_key = Some(key)], ok |-> FALSE,
             message |-> ConfigErrorPrefix \o o.err, configured |-> <<key>>]
      [] OTHER ->
            [self |-> [api_key |-> IF self.api_key = None THEN Some(key)
                                   ELSE self.api_key,
                       model |-> Some(Handle(NextId(self.model))),
                       genai_key |-> Some(key)],
             ok |-> TRUE, message |-> ConfiguredMsg, configured |-> <<key>>]

setup_gemini(self, key, o) ==
    CASE o.kind = "configure_raises" ->
            [self |-> self, ok |-> FALSE,
             message |-> ConfigErrorPrefix \o o.err, configured |-> <<key>>]
      [] o.kind = "model_raises" ->
            [self |-> [self EXCEPT !.genai_key = Some(key)], ok |-> FALSE,
             message |-> ConfigErrorPrefix \o o.err, configured |-> <<key>>]
      [] OTHER ->
            [self |-> [api_key |-> Some(key),
                       model |-> Some(Handle(NextId(self.model))),
                       genai_key |-> Some(key)],
             ok |-> TRUE, message |-> ConfiguredMsg, configured |-> <<key>>]

(***************************************************************************)
(* Gradio handler functions.  Each value holds the returned tuple (the     *)
(* component values it outputs) and the library calls made on the way.     *)
(***************************************************************************)
setup_api_key(self, key_input, o) ==
    IF ~Truthy(strip(key_input))
    THEN [self |-> self, ok |-> FALSE, message |-> EnterKeyMsg,
          field |-> EmptyStr, configured |-> <<>>]
    ELSE LET r == setup_gemini(self, strip(key_input), o)
         IN  IF r.ok
             THEN [self |-> r.self, ok |-> TRUE, message |-> r.message,
                   field |-> ReadyMsg, configured |-> r.configured]
             ELSE [self |-> r.self, ok |-> FALSE, message |-> r.message,
                   field |-> EmptyStr, configured |-> r.configured]

\* variant: without the test of study_mate.model made by the handler
ask_question_no_precheck(m, question, subject, language, difficulty, hist, o) ==
    LET r == get_study_response(m, question, subject, language, difficulty, o)
    IN  [history |-> Append(hist, <<question, r.result>>),
         field |-> EmptyStr, response |-> Some(r.result), calls |-> r.calls]

ask_question(m, question, subject, language, difficulty, hist, o) ==
    IF ~Truthy(m)
    THEN [history |-> hist, field |-> NotConfiguredMsg,
          response |-> None, calls |-> <<>>]
    ELSE LET r == get_study_response(m, question, subject, language, difficulty, o)
         IN  [history |-> Append(hist, <<question, r.result>>),
              field |-> EmptyStr, response |-> Some(r.result), calls |-> r.calls]

TipsQuestion(subject) == <<"Can you give me study tips for ">> \o subject \o <<"?">>

\* variant: the turn replaces the history it was given
get_study_tips_reset(m, subject, language, hist, o) ==
    LET r == StudyMate_get_study_tips(m, subject, language, o)
    IN  [history |-> <<(<<TipsQuestion(subject), r.result>>)>>,
         response |-> Some(r.result), calls |-> r.calls]

get_study_tips(m, subject, language, hist, o) ==
    LET r == StudyMate_get_study_tips(m, subject, language, o)
    IN  [history |-> Append(hist, <<TipsQuestion(subject), r.result>>),
         response |-> Some(r.result), calls |-> r.calls]

clear_chat == <<>>

(***************************************************************************)
(* State.  api_key and model are the fields of the global study_mate;      *)
(* genai_key is the key held by the genai library; history is the value of *)
(* the chatbot component; last records the latest invocation: its          *)
(* arguments, whether self.model was set when it started, the outcome of   *)
(* the library call, what it returned and the library calls it made.       *)
(***************************************************************************)
Self == [api_key |-> api_key, model |-> model, genai_key |-> genai_key]

Idle ==
    [op |-> "none", key_input |-> EmptyStr, question |-> EmptyStr,
     subject |-> EmptyStr, language |-> EmptyStr, difficulty |-> EmptyStr,
     ready |-> FALSE, outcome |-> NoOutcome, ok |-> FALSE, result |-> None,
     field |-> None, calls |-> <<>>, configured |-> <<>>]

\* the outcome is recorded only when the library was reached
Seen(o, reached) == IF reached = <<>> THEN NoOutcome ELSE o

Init ==
    /\ api_key = None
    /\ model = None
    /\ genai_key = None
    /\ history = <<>>
    /\ last = Idle

SetupApiKey(k, o) ==
    LET r == setup_api_key(Self, k, o)
    IN  /\ HandleId(r.self.model) <= MaxSetups
        /\ api_key' = r.self.api_key
        /\ model' = r.self.model
        /\ genai_key' = r.self.genai_key
        /\ last' = [Idle EXCEPT !.op = "setup_api_key", !.ready = Truthy(model), !.key_input = k,
                                !.outcome = Seen(o, r.configured), !.ok = r.ok,
                                !.result = Some(r.message), !.field = Some(r.field),
                                !.configured = r.configured]
        /\ UNCHANGED history

AskQuestion(q, s, l, d, o) ==
    LET r == ask_question(model, q, s, l, d, history, o)
    IN  /\ Len(r.history) <= MaxHist
        /\ history' = r.history
        /\ last' = [Idle EXCEPT !.op = "ask_question", !.ready = Truthy(model), !.question = q,
                                !.subject = s, !.language = l, !.difficulty = d,
                                !.outcome = Seen(o, r.calls), !.result = r.response,
                                !.field = Some(r.field), !.calls = r.calls]
        /\ UNCHANGED <<api_key, model, genai_key>>

GetStudyTips(s, l, o) ==
    LET r == get_study_tips(model, s, l, history, o)
    IN  /\ Len(r.history) <= MaxHist
        /\ history' = r.history
        /\ last' = [Idle EXCEPT !.op = "get_study_tips", !.ready = Truthy(model), !.subject = s,
                                !.language = l, !.outcome = Seen(o, r.calls),
                                !.result = r.response, !.calls = r.calls]
        /\ UNCHANGED <<api_key, model, genai_key>>

ClearChat ==
    /\ history' = clear_chat
    /\ last' = [Idle EXCEPT !.op = "clear_chat"]
    /\ UNCHANGED <<api_key, model, genai_key>>

\* direct invocations of the methods of the StudyMate object
CallCreateStudyPrompt(q, s, l, d) ==
    /\ last' = [Idle EXCEPT !.op = "create_study_prompt", !.question = q,
                            !.subject = s, !.language = l, !.difficulty = d,
                            !.result = Some(create_study_prompt(q, s, l, d))]
    /\ UNCHANGED <<api_key, model, genai_key, history>>

CallGetStudyResponse(q, s, l, d, o) ==
    LET r == get_study_response(model, q, s, l, d, o)
    IN  /\ last' = [Idle EXCEPT !.op = "get_study_response", !.ready = Truthy(model), !.question = q,
                                !.subject = s, !.language = l, !.difficulty = d,
                                !.outcome = Seen(o, r.calls),
                                !.result = Some(r.result), !.calls = r.calls]
        /\ UNCHANGED <<api_key, model, genai_key, history>>

CallGetStudyTips(s, l, o) ==
    LET r == StudyMate_get_study_tips(model, s, l, o)
    IN  /\ last' = [Idle EXCEPT !.op = "StudyMate.get_study_tips", !.ready = Truthy(model), !.subject = s,
                                !.language = l, !.outcome = Seen(o, r.calls),
                                !.result = Some(r.result), !.calls = r.calls]
        /\ UNCHANGED <<api_key, model, genai_key, history>>

(***************************************************************************)
(* Spec: the interactive session, driven through the four handlers.        *)
(***************************************************************************)
Next ==
    \/ \E k \in Credentials, o \in InitOutcomes : SetupApiKey(k, o)
    \/ \E q \in SessionQuestions, s \in SessionSubjects, l \in SessionLanguages,
          d \in SessionDifficulties, o \in GenerateOutcomes : AskQuestion(q, s, l, d, o)
    \/ \E s \in SessionSubjects, l \in SessionLanguages, o \in GenerateOutcomes :
          GetStudyTips(s, l, o)
    \/ ClearChat

Spec == Init /\ [][Next]_vars

(***************************************************************************)
(* SpecCore: the StudyMate object, its methods called with any arguments.  *)
(***************************************************************************)
NextCore ==
    \/ \E k \in Credentials, o \in InitOutcomes : SetupApiKey(k, o)
    \/ \E q \in Questions, s \in Subjects, l \in Languages, d \in Difficulties :
          CallCreateStudyPrompt(q, s, l, d)
    \/ \E q \in Questions, s \in Subjects, l \in Languages, d \in Difficulties,
          o \in GenerateOutcomes : CallGetStudyResponse(q, s, l, d, o)
    \/ \E s \in Subjects, l \in Languages, o \in GenerateOutcomes :
          CallGetStudyTips(s, l, o)

SpecCore == Init /\ [][NextCore]_vars

TypeOK ==
    /\ Len(history) <= MaxHist
    /\ Len(api_key) <= 1 /\ Len(model) <= 1

(***************************************************************************)
(* Properties.                                                             *)
(***************************************************************************)
IsPrefix(a, b) == Len(a) <= Len(b) /\ SubSeq(b, 1, Len(a)) = a

Blank(q) == strip(q) = EmptyStr

\* the instruction create_study_prompt is to embed for a language name
TutorInstructionFor(l) ==
    IF l \in KnownLanguages THEN language_instructions[l] ELSE DefaultInstruction

\* the instruction get_study_tips is to embed for a language name
TipsInstructionFor(l) ==
    IF l \in KnownLanguages THEN tips_language_instructions[l] ELSE DefaultInstruction

IsAnswer == last.op = "get_study_response"
IsTips == last.op = "StudyMate.get_study_tips"

\* C1: every invocation of get_study_response makes exactly one
\* generate_content call when self.model is set and the question is not
\* blank after strip(), and none otherwise; every invocation of
\* StudyMate.get_study_tips makes exactly one call when self.model is set and
\* none otherwise; no invocation makes more than one call, also when the
\* call raises.
C1_OneCallPerInvocation ==
    /\ IsAnswer =>
         Len(last.calls) = (IF last.ready /\ ~Blank(last.question) THEN 1 ELSE 0)
    /\ IsTips => Len(last.calls) = (IF last.ready THEN 1 ELSE 0)
    /\ Len(last.calls) <= 1

C1_Witness ==
    /\ IsAnswer /\ last.ready
    /\ last.outcome.kind = "raises"
    /\ Len(last.calls) = 1

\* C2: get_study_response returns the not-configured message whenever
\* self.model is not set, whatever the question (blank ones included); with
\* self.model set it returns the empty-question message for every question
\* that is blank after strip(); StudyMate.get_study_tips returns the same
\* not-configured message whenever self.model is not set.
C2_FixedMessages ==
    /\ (IsAnswer /\ ~last.ready) => last.result = Some(NotConfiguredMsg)
    /\ (IsAnswer /\ last.ready /\ Blank(last.question)) =>
         last.result = Some(EmptyQuestionMsg)
    /\ (IsTips /\ ~last.ready) => last.result = Some(NotConfiguredMsg)

C2_Witness ==
    /\ IsAnswer /\ ~last.ready
    /\ last.question = <<SP>>
    /\ last.result = Some(NotConfiguredMsg)

\* C3: with self.model set and a non-blank question, get_study_response
\* always returns a string: the response text itself when it is non-empty,
\* the could-not-generate message when there is no response or its text is
\* empty, and, when the call raises, the error message holding str(e) and
\* the hint to check the API key and the connection.
C3_AnswerMapping ==
    (IsAnswer /\ last.ready /\ ~Blank(last.question)) =>
        /\ last.result # None
        /\ (last.outcome.kind = "response" /\ last.outcome.text # EmptyStr) =>
             last.result = Some(last.outcome.text)
        /\ (last.outcome.kind = "none"
              \/ (last.outcome.kind = "response" /\ last.outcome.text = EmptyStr)) =>
             last.result = Some(NoResponseMsg)
        /\ last.outcome.kind = "raises" =>
             /\ IsPrefix(ResponseErrorPrefix, last.result[1])
             /\ Contains(last.result[1], last.outcome.err)
             /\ Contains(last.result[1], CheckHint)

C3_Witness ==
    /\ IsAnswer /\ last.ready /\ ~Blank(last.question)
    /\ last.outcome.kind = "raises"
    /\ Contains(last.result[1], last.outcome.err)

\* C4: with self.model set, StudyMate.get_study_tips maps the outcome of its
\* call as get_study_response does: non-empty text is returned as is; no
\* response object or empty text gives the could-not-generate-tips message;
\* a raised error gives a message holding str(e) and the same hint to check
\* the API key and the connection.
C4_TipsMapping ==
    (IsTips /\ last.ready) =>
        /\ (last.outcome.kind = "response" /\ last.outcome.text # EmptyStr) =>
             last.result = Some(last.outcome.text)
        /\ (last.outcome.kind = "none"
              \/ (last.outcome.kind = "response" /\ last.outcome.text = EmptyStr)) =>
             last.result = Some(NoTipsMsg)
        /\ last.outcome.kind = "raises" =>
             /\ Contains(last.result[1], last.outcome.err)
             /\ Contains(last.result[1], CheckHint)

IsSetup == last.op = "setup_api_key"

\* C5: a failing setup_api_key leaves self.api_key and self.model as they
\* were; a key that is blank after strip() fails without any call to
\* genai.configure; when the library raises, the call fails with a message
\* that holds str(e).
C5_FailedSetupKeepsConfig ==
    /\ [][(last'.op = "setup_api_key" /\ ~last'.ok) =>
            (api_key' = api_key /\ model' = model)]_vars
    /\ [](IsSetup /\ Blank(last.key_input) =>
            ~last.ok /\ last.configured = <<>>)
    /\ [](IsSetup /\ last.outcome.kind \in {"configure_raises", "model_raises"} =>
            ~last.ok /\ Contains(last.result[1], last.outcome.err))

C5_Witness ==
    /\ IsSetup /\ ~last.ok /\ last.ready
    /\ last.outcome.kind = "model_raises"
    /\ model # None /\ api_key # None

\* C6: self.api_key and self.model start as None; self.model becomes set
\* only by a successful setup_api_key and is never set back to None; after
\* every successful setup_api_key self.api_key is the stripped key of that
\* call, also when a key was stored before.
C6_ReadyIsStable ==
    /\ (api_key = None /\ model = None)
    /\ [][model # None => model' # None]_vars
    /\ [][(model = None /\ model' # None) =>
            (last'.op = "setup_api_key" /\ last'.ok)]_vars
    /\ [](IsSetup /\ last.ok =>
            model # None /\ api_key = Some(strip(last.key_input)))

C6_Witness ==
    /\ IsSetup /\ last.ok /\ last.ready
    /\ HandleId(model) = 2
    /\ api_key = Some(<<"k">>)

\* C7: every handler other than clear_chat keeps the turns of the chat
\* history in place and adds at most one turn, a pair of prompt text and
\* response text, at the end; clear_chat empties the history whatever its
\* length; the first turn added after clear_chat gives length 1.
C7_AppendOnly ==
    /\ [][IF last'.op = "clear_chat"
          THEN history' = <<>>
          ELSE /\ IsPrefix(history, history')
               /\ Len(history') <= Len(history) + 1]_vars
    /\ [][(last.op = "clear_chat" /\ history' # history) => Len(history') = 1]_vars
    /\ [](\A i \in 1..Len(history) : Len(history[i]) = 2)

C7_Witness ==
    /\ last.op \in {"ask_question", "get_study_tips"}
    /\ Len(history) = 2
    /\ history[1] # history[2]

IsAppend(h, h2, response) ==
    /\ Len(h2) = Len(h) + 1
    /\ IsPrefix(h, h2)
    /\ response # None
    /\ h2[Len(h2)][2] = response[1]

C9_TutorPromptEmbeds ==
    /\ [](last.op = "create_study_prompt" =>
            /\ last.result # None
            /\ Contains(last.result[1], last.question)
            /\ Contains(last.result[1], last.subject)
            /\ Contains(last.result[1], last.difficulty)
            /\ Contains(last.result[1], TutorInstructionFor(last.language)))
    /\ [](IsAnswer /\ last.calls # <<>> =>
            /\ Contains(last.calls[1], last.question)
            /\ Contains(last.calls[1], last.subject)
            /\ Contains(last.calls[1], last.difficulty)
            /\ Contains(last.calls[1], TutorInstructionFor(last.language)))
    /\ [][last'.op = "create_study_prompt" =>
            UNCHANGED <<api_key, model, genai_key, history>>]_vars

C9_Witness ==
    /\ last.op = "create_study_prompt"
    /\ last.question = <<SP, "q", SP>>
    /\ last.language = <<"Klingon">>
    /\ last.subject = <<"Alchemy">>
    /\ Contains(last.result[1], DefaultInstruction)

====
